---- MODULE Spec2Model ----
(***************************************************************************)
(* Model of the metadata cache of yt_app: lib/utils/info_cache.py.         *)
(*                                                                         *)
(* InfoManager keeps one "<video_id>.info" file per video in a cache       *)
(* directory and an in-memory index (yt_source_list) of (mtime, source)    *)
(* pairs.  The directory is a map from file names to files; a file is a    *)
(* text and a modification time; a text is a sequence of tokens.           *)
(***************************************************************************)
EXTENDS Integers, Sequences, FiniteSets, TLC

VARIABLES files, index, now, ret, dir, proc, codec, locked, full,
          floats, _float, _old_kb, key_bindings, filename_input,
          status_label, disk, allowed_suffixes, ev, kb_at_open

vars == <<files, index, now, ret, dir, proc, codec, locked, full,
          floats, _float, _old_kb, key_bindings, filename_input,
          status_label, disk, allowed_suffixes, ev, kb_at_open>>

\* The manager's own state, the state of the step-level view of the
\* directory, the state of the codec check, and the state of the save
\* dialog of the application (lib/ui/file_save_dialog.py).
mgrVars == <<files, index, now, ret, locked, full>>
stepVars == <<dir, proc>>
uiVars == <<floats, _float, _old_kb, key_bindings, filename_input,
            status_label, disk, allowed_suffixes, ev, kb_at_open>>

(***************************************************************************)
(* Bounds and input sets.                                                  *)
(***************************************************************************)
MaxTime == 4
MaxKeep == 2

Ids == {"A", "B", "C"}

\* str(None): what extract_video_id yields when no id can be derived.
NoId == "None"
\* f"{video_id}." with video_id the bool False (info_cache.py:201,217,151).
FalseStr == "False"

BadRef == "bad"
JunkId == "junk"

\* References: the bare id, and for A a second spelling of the same video.
Refs == {"w:A", "s:A", "w:B", "w:C"}

\* The titles the provider may report for a reference: the video behind
\* "w:A" is seen under two titles, the others under one.
TitlesOf(url) == IF url = "w:A" THEN {"t1", "t2"} ELSE {"t1"}

\* yt_lib.yt_ids.extract_video_id: an id is its own canonical form, a
\* reference yields the id it names, anything else yields None.
extract_video_id(s) ==
    CASE s \in Ids -> s
      [] s \in {"w:A", "s:A"} -> "A"
      [] s = "w:B" -> "B"
      [] s = "w:C" -> "C"
      [] OTHER -> NoId

(***************************************************************************)
(* Records and their text encoding.                                        *)
(***************************************************************************)
\* fields(YtdlpMetadata), in declaration order, as the applications use them.
Fields == <<"video_id", "url", "title", "description">>
FieldSet == {Fields[i] : i \in 1..Len(Fields)}

NoMeta == [video_id |-> "", url |-> "", title |-> "", description |-> ""]

Meta(v, u, t) == [video_id |-> v, url |-> u, title |-> t, description |-> "d"]

\* Tokens of a JSON text.
LBrace == <<"{", "">>
RBrace == <<"}", "">>
LBracket == <<"[", "">>
RBracket == <<"]", "">>
Member(k, v) == <<k, v>>
Punct == {"{", "}", "[", "]"}

\* A str as json.dumps writes it between the quotes, and as json.loads
\* reads it back: a quote and a backslash are written with a backslash
\* before them.
JsonEscape(v) ==
    CASE v = "say \"hi\"" -> "say \\\"hi\\\""
      [] v = "a\\b" -> "a\\\\b"
      [] OTHER -> v

JsonUnescape(w) ==
    CASE w = "say \\\"hi\\\"" -> "say \"hi\""
      [] w = "a\\\\b" -> "a\\b"
      [] OTHER -> w

\* json.dumps(asdict(meta), ...): one member per field, declaration order.
_video_metadata_to_json(meta) ==
    <<LBrace>> \o [i \in 1..Len(Fields) |-> Member(Fields[i], JsonEscape(meta[Fields[i]]))]
               \o <<RBrace>>

\* json.loads accepts the text as an object.
IsObjectText(text) ==
    /\ Len(text) >= 2
    /\ text[1] = LBrace
    /\ text[Len(text)] = RBrace
    /\ \A i \in 2..(Len(text) - 1) : text[i][1] \notin Punct

\* json.loads accepts the text as a value that is not an object.
IsArrayText(text) == text = <<LBracket, RBracket>>

\* The dict json.loads builds: a later member replaces an earlier one.
Keys(text) == {text[i][1] : i \in 2..(Len(text) - 1)}
LastIndex(text, k) ==
    CHOOSE i \in 2..(Len(text) - 1) :
        /\ text[i][1] = k
        /\ \A j \in (i + 1)..(Len(text) - 1) : text[j][1] # k
json_loads(text) == [k \in Keys(text) |-> JsonUnescape(text[LastIndex(text, k)][2])]

\* Mutant: a key that is no field of the record is passed on to the
\* constructor, which rejects it.
_video_metadata_from_json_strict(text) ==
    IF IsArrayText(text) THEN [err |-> "ValueError", meta |-> NoMeta]
    ELSE IF ~IsObjectText(text) THEN [err |-> "JSONDecodeError", meta |-> NoMeta]
    ELSE LET raw == json_loads(text)
         IN  IF DOMAIN raw = FieldSet
             THEN [err |-> "none", meta |-> [k \in FieldSet |-> raw[k]]]
             ELSE [err |-> "TypeError", meta |-> NoMeta]

\* _video_metadata_from_json: [err, meta].  "JSONDecodeError" and
\* "ValueError" are ValueErrors, "TypeError" is the dataclass constructor
\* rejecting a missing field.  None of them is an OSError.
_video_metadata_from_json(text) ==
    IF IsArrayText(text) THEN [err |-> "ValueError", meta |-> NoMeta]
    ELSE IF ~IsObjectText(text) THEN [err |-> "JSONDecodeError", meta |-> NoMeta]
    ELSE LET raw == json_loads(text)
             allowed == FieldSet
             filtered == [k \in (DOMAIN raw) \cap allowed |-> raw[k]]
         IN  IF DOMAIN filtered = FieldSet
             THEN [err |-> "none", meta |-> [k \in FieldSet |-> filtered[k]]]
             ELSE [err |-> "TypeError", meta |-> NoMeta]

\* YouTubeSource.from_VideoMetadata, with the mtime the index pairs it with.
Entry(mt, meta) == [mt |-> mt, id |-> meta.video_id, url |-> meta.url, title |-> meta.title]

(***************************************************************************)
(* The cache directory.                                                    *)
(***************************************************************************)
\* A file name is <<base, suffix>>: "<base>.<suffix>".
InfoName(v) == <<v, "info">>
LegacyNames == {<<"A", "legacy">>, <<FalseStr, "legacy">>}
FileNames == {InfoName(v) : v \in Ids} \cup LegacyNames

NoFile == [text |-> <<>>, mtime |-> -1]
File(text, mt) == [text |-> text, mtime |-> mt]
LegacyFile == File(<<Member("legacy", "x")>>, 0)

\* The directory itself is not there.
NoDir == <<>>

\* Path.is_file(): False as well when the directory is not there.
is_file(fs, name) == name \in DOMAIN fs /\ fs[name] # NoFile

\* p.name.startswith(f"{video_id}."): ids hold no dot, so the name starts
\* with the prefix exactly when its base is the id.
StartsWith(name, prefix) == name[1] = prefix

\* cache_dir.glob("*.info")
GlobInfo(fs) == {nm \in FileNames : nm[2] = "info" /\ is_file(fs, nm)}

(***************************************************************************)
(* Sorting: list.sort(key=mtime, reverse=True) is stable.                  *)
(***************************************************************************)
RECURSIVE InsertDesc(_, _)
InsertDesc(e, s) ==
    IF s = <<>> THEN <<e>>
    ELSE IF Head(s).mt >= e.mt THEN <<Head(s)>> \o InsertDesc(e, Tail(s))
    ELSE <<e>> \o s

RECURSIVE SortDesc(_)
SortDesc(s) ==
    IF s = <<>> THEN <<>>
    ELSE LET r == SortDesc(SubSeq(s, 1, Len(s) - 1))
         IN  InsertDesc(s[Len(s)], r)

IdsOf(s) == [i \in 1..Len(s) |-> s[i].id]
IsSortedDesc(s) == \A i \in 1..(Len(s) - 1) : s[i].mt >= s[i + 1].mt

\* All orders in which a directory listing may yield the names of S.
Orders(S) ==
    {f \in [1..Cardinality(S) -> S] : \A i, j \in 1..Cardinality(S) : f[i] = f[j] => i = j}

(***************************************************************************)
(* Python values that reach an f-string or a comparison with an id.        *)
(***************************************************************************)
PyStr(s) == <<"str", s>>
PyFalse == <<"bool", FalseStr>>
\* f"{v}"
Format(v) == v[2]
\* yt_src.id != v, for yt_src.id a str: a str never equals a bool.
IdDiffers(id, v) == ~(v[1] = "str" /\ v[2] = id)

(***************************************************************************)
(* InfoManager, as functions of the directory fs and the index idx.        *)
(***************************************************************************)
info_path_for(video_id) == InfoName(video_id)

\* refresh_index raises when a "*.info" file does not decode: the handler
\* catches OSError only.
RefreshError(fs) ==
    LET bad == {nm \in GlobInfo(fs) : _video_metadata_from_json(fs[nm].text).err # "none"}
    IN  IF bad = {} THEN "none"
        ELSE _video_metadata_from_json(fs[CHOOSE nm \in bad : TRUE].text).err

\* Mutant: the entries are left in the order of the listing.
refresh_index_unsorted(fs) ==
    {[i \in 1..Len(o) |->
         Entry(fs[o[i]].mtime, _video_metadata_from_json(fs[o[i]].text).meta)]
       : o \in Orders(GlobInfo(fs))}

\* refresh_index: the indexes it may build, one per listing order of glob.
refresh_index(fs) ==
    {SortDesc([i \in 1..Len(o) |->
                 Entry(fs[o[i]].mtime, _video_metadata_from_json(fs[o[i]].text).meta)])
       : o \in Orders(GlobInfo(fs))}

\* Mutant: every file of the directory but keep is deleted.
remove_stale_files_for_video_id_any_prefix(fs, idx, video_id, keep) ==
    LET Stays(e) == IdDiffers(e.id, video_id)
    IN  [files |-> [nm \in FileNames |->
                      IF is_file(fs, nm) /\ nm # keep /\ nm \notin locked
                      THEN NoFile ELSE fs[nm]],
         index |-> SelectSeq(idx, Stays)]

\* remove_stale_files_for_video_id: [files, index].  keep is a file name,
\* or <<>> for None.  The unlink of a file in locked raises; the exception
\* is logged and the loop goes on, so the file stays.
remove_stale_files_for_video_id(fs, idx, video_id, keep) ==
    LET prefix == Format(video_id)
        Stays(e) == IdDiffers(e.id, video_id)
    IN  [files |-> [nm \in FileNames |->
                      IF /\ is_file(fs, nm) /\ StartsWith(nm, prefix) /\ nm # keep
                         /\ nm \notin locked
                      THEN NoFile ELSE fs[nm]],
         index |-> SelectSeq(idx, Stays)]

\* Mutant: a file that is there is not written over.
_atomic_write_text_no_clobber(fs, path, text, t) ==
    IF is_file(fs, path) THEN fs ELSE [fs EXCEPT ![path] = File(text, t)]

\* _atomic_write_text, run to completion: the temporary file is renamed
\* onto path, which then carries the text and the time of the write.
_atomic_write_text(fs, path, text, t) == [fs EXCEPT ![path] = File(text, t)]

\* Mutant: the entry of the record just written is dropped, not prepended.
_prepend_to_index_forgets(fs, idx, yt_source) ==
    LET Other(e) == e.id # yt_source.id
    IN  {SelectSeq(idx, Other)}

\* Mutant: the entry the index already has for the id is left in it.
_prepend_to_index_keeps_old(fs, idx, yt_source) ==
    LET info_file == info_path_for(yt_source.id)
    IN  IF ~is_file(fs, info_file) THEN refresh_index(fs)
        ELSE {SortDesc(<<[yt_source EXCEPT !.mt = fs[info_file].mtime]>> \o idx)}

\* Mutant: the new entry is added behind the entries the index has.
_prepend_to_index_appends(fs, idx, yt_source) ==
    LET info_file == info_path_for(yt_source.id)
    IN  IF ~is_file(fs, info_file) THEN refresh_index(fs)
        ELSE {SortDesc(idx \o <<[yt_source EXCEPT !.mt = fs[info_file].mtime]>>)}

\* _prepend_to_index: the indexes it may leave.
_prepend_to_index(fs, idx, yt_source) ==
    LET info_file == info_path_for(yt_source.id)
        Other(e) == e.id # yt_source.id
    IN  IF ~is_file(fs, info_file) THEN refresh_index(fs)
        ELSE {SortDesc(<<[yt_source EXCEPT !.mt = fs[info_file].mtime]>>
                         \o SelectSeq(idx, Other))}

\* Mutant: the id derived from the reference names the file, and the record
\* is written with the id it came with.
cache_VideoMetadata_keeps_id(fs, idx, meta, t) ==
    LET vid0 == meta.video_id
        mismatch == extract_video_id(vid0) # vid0
        fromUrl == extract_video_id(meta.url)
        video_id == IF mismatch THEN PyStr(fromUrl) ELSE PyFalse
        vid == IF mismatch THEN fromUrl ELSE vid0
        meta1 == IF mismatch THEN [meta EXCEPT !.video_id = fromUrl] ELSE meta
        info_file == info_path_for(vid)
        cleaned == remove_stale_files_for_video_id(fs, idx, video_id, info_file)
        written == _atomic_write_text(cleaned.files, info_file,
                                      _video_metadata_to_json(meta), t)
    IN  IF mismatch /\ fromUrl = NoId
        THEN {[err |-> "UnresolvableIdentifier", files |-> fs, index |-> idx, meta |-> meta]}
        ELSE {[err |-> "none", files |-> written, index |-> i, meta |-> meta1]
                : i \in _prepend_to_index(written, cleaned.index, Entry(0, meta1))}

\* cache_VideoMetadata at time t: the set of [err, files, index, meta] it
\* may end in; meta is the record as the call leaves it.  When the cache
\* directory is not there, cache_dir.iterdir() in
\* remove_stale_files_for_video_id raises FileNotFoundError, outside the
\* try that guards the unlink and before _atomic_write_text and its mkdir
\* are reached.  When the disk is full, tf.write()/tf.flush() in
\* _atomic_write_text raise OSError after the cleanup has run and before
\* the rename: the call ends with what the cleanup left (the temporary
\* file stays behind under a name of its own, which no glob of the manager
\* matches).
cache_VideoMetadata(fs, idx, meta, t) ==
    LET vid0 == meta.video_id
        mismatch == extract_video_id(vid0) # vid0
        fromUrl == extract_video_id(meta.url)
        video_id == IF mismatch THEN PyStr(fromUrl) ELSE PyFalse
        vid == IF mismatch THEN fromUrl ELSE vid0
        meta1 == IF mismatch THEN [meta EXCEPT !.video_id = fromUrl] ELSE meta
        info_file == info_path_for(vid)
        cleaned == remove_stale_files_for_video_id(fs, idx, video_id, info_file)
        written == _atomic_write_text(cleaned.files, info_file,
                                      _video_metadata_to_json(meta1), t)
    IN  IF mismatch /\ fromUrl = NoId
        THEN {[err |-> "UnresolvableIdentifier", files |-> fs, index |-> idx, meta |-> meta]}
        ELSE IF fs = NoDir
        THEN {[err |-> "FileNotFoundError", files |-> fs, index |-> idx, meta |-> meta1]}
        ELSE IF full
        THEN {[err |-> "OSError", files |-> cleaned.files, index |-> cleaned.index,
               meta |-> meta1]}
        ELSE {[err |-> "none", files |-> written, index |-> i, meta |-> meta1]
                : i \in _prepend_to_index(written, cleaned.index, Entry(0, meta1))}

\* crop_cache: [err, files, index].
RECURSIVE RemoveAll(_, _, _)
RemoveAll(fs, idx, stale) ==
    IF stale = <<>> THEN [files |-> fs, index |-> idx]
    ELSE LET r == remove_stale_files_for_video_id(fs, idx, PyStr(Head(stale).id), <<>>)
         IN  RemoveAll(r.files, r.index, Tail(stale))

Take(s, n) == SubSeq(s, 1, IF n < Len(s) THEN n ELSE Len(s))
Drop(s, n) == SubSeq(s, (IF n < Len(s) THEN n ELSE Len(s)) + 1, Len(s))

\* Mutant: num_entries is taken as the number of entries to drop.
crop_cache_drops_count(fs, idx, num_entries) ==
    IF num_entries < 0
    THEN [err |-> "InvalidArgument", files |-> fs, index |-> idx]
    ELSE LET sorted == SortDesc(idx)
             kept == IF num_entries < Len(sorted) THEN Len(sorted) - num_entries ELSE 0
             stale == Drop(sorted, kept)
             keep == Take(sorted, kept)
             r == RemoveAll(fs, sorted, stale)
         IN  [err |-> "none", files |-> r.files, index |-> keep]

\* Mutant: the slices are cut one entry too late.
crop_cache_off_by_one(fs, idx, num_entries) ==
    IF num_entries < 0
    THEN [err |-> "InvalidArgument", files |-> fs, index |-> idx]
    ELSE LET sorted == SortDesc(idx)
             stale == Drop(sorted, num_entries + 1)
             keep == Take(sorted, num_entries + 1)
             r == RemoveAll(fs, sorted, stale)
         IN  [err |-> "none", files |-> r.files, index |-> keep]

\* Mutant: a negative count is taken as zero.
crop_cache_clamps(fs, idx, num_entries) ==
    LET sorted == SortDesc(idx)
        n == IF num_entries < 0 THEN 0 ELSE num_entries
        stale == Drop(sorted, n)
        keep == Take(sorted, n)
        r == RemoveAll(fs, sorted, stale)
    IN  [err |-> "none", files |-> r.files, index |-> keep]

\* Mutant: a file that cannot be deleted ends the eviction with the error.
crop_cache_stops_on_failure(fs, idx, num_entries) ==
    IF num_entries < 0
    THEN [err |-> "InvalidArgument", files |-> fs, index |-> idx]
    ELSE LET sorted == SortDesc(idx)
             stale == Drop(sorted, num_entries)
             keep == Take(sorted, num_entries)
             r == RemoveAll(fs, sorted, stale)
             failed == \E i \in 1..Len(stale) : \E nm \in locked :
                          is_file(fs, nm) /\ StartsWith(nm, stale[i].id)
         IN  IF failed THEN [err |-> "OSError", files |-> r.files, index |-> sorted]
             ELSE [err |-> "none", files |-> r.files, index |-> keep]

crop_cache(fs, idx, num_entries) ==
    IF num_entries < 0
    THEN [err |-> "InvalidArgument", files |-> fs, index |-> idx]
    ELSE LET sorted == SortDesc(idx)
             stale == Drop(sorted, num_entries)
             keep == Take(sorted, num_entries)
             r == RemoveAll(fs, sorted, stale)
         IN  [err |-> "none", files |-> r.files, index |-> keep]

\* The external provider (yt-dlp) and YtdlpMetadata.from_yt_dlp(url, info):
\* it fails, or yields the record of the video the url names; for a url
\* that names no video it can only fail.
Provider(url) ==
    {[err |-> "ProviderError", meta |-> NoMeta]}
      \cup (IF extract_video_id(url) = NoId THEN {}
            ELSE {[err |-> "none", meta |-> Meta(extract_video_id(url), url, t)]
                    : t \in TitlesOf(url)})

\* Mutant: a failure of the provider is answered with a second attempt.
_fetch_yt_dlp_metadata_retries(fs, idx, url, t) ==
    UNION {IF p.err # "none"
           THEN UNION {IF q.err # "none"
                       THEN {[err |-> q.err, files |-> fs, index |-> idx,
                              val |-> NoMeta, calls |-> 2]}
                       ELSE {[err |-> c.err, files |-> c.files, index |-> c.index,
                              val |-> IF c.err = "none" THEN c.meta ELSE NoMeta, calls |-> 2]
                               : c \in cache_VideoMetadata(fs, idx, q.meta, t)}
                         : q \in Provider(url)}
           ELSE {[err |-> c.err, files |-> c.files, index |-> c.index,
                  val |-> IF c.err = "none" THEN c.meta ELSE NoMeta, calls |-> 1]
                   : c \in cache_VideoMetadata(fs, idx, p.meta, t)}
             : p \in Provider(url)}

\* Mutant: a failure of the provider drops what the cache holds for the id
\* of the url, file and index entry.
_fetch_yt_dlp_metadata_drops_record(fs, idx, url, t) ==
    LET v == extract_video_id(url)
        Other(e) == e.id # v
    IN  UNION {IF p.err # "none"
               THEN {[err |-> p.err,
                      files |-> IF InfoName(v) \in FileNames
                                THEN [fs EXCEPT ![InfoName(v)] = NoFile] ELSE fs,
                      index |-> SelectSeq(idx, Other),
                      val |-> NoMeta, calls |-> 1]}
               ELSE {[err |-> c.err, files |-> c.files, index |-> c.index,
                      val |-> IF c.err = "none" THEN c.meta ELSE NoMeta, calls |-> 1]
                       : c \in cache_VideoMetadata(fs, idx, p.meta, t)}
                 : p \in Provider(url)}

\* _fetch_yt_dlp_metadata: the set of [err, files, index, val, calls].
_fetch_yt_dlp_metadata(fs, idx, url, t) ==
    UNION {IF p.err # "none"
           THEN {[err |-> p.err, files |-> fs, index |-> idx, val |-> NoMeta, calls |-> 1]}
           ELSE {[err |-> c.err, files |-> c.files, index |-> c.index,
                  val |-> IF c.err = "none" THEN c.meta ELSE NoMeta, calls |-> 1]
                   : c \in cache_VideoMetadata(fs, idx, p.meta, t)}
             : p \in Provider(url)}

\* Mutant: touch leaves the modification time of an existing file alone.
touch_keeps_mtime(fs, name, t) ==
    IF is_file(fs, name) THEN fs ELSE [fs EXCEPT ![name] = File(<<>>, t)]

\* Mutant: the touch stamps every file of the directory.
touch_bumps_all(fs, name, t) ==
    [nm \in FileNames |->
        IF is_file(fs, nm) THEN [fs[nm] EXCEPT !.mtime = t]
        ELSE IF nm = name THEN File(<<>>, t) ELSE fs[nm]]

\* Path.touch(): bump the modification time; create the file, empty, when
\* there is none.
touch(fs, name, t) ==
    IF is_file(fs, name) THEN [fs EXCEPT ![name].mtime = t]
    ELSE [fs EXCEPT ![name] = File(<<>>, t)]

\* Mutant: the index is searched for the reference as it was typed.
LookupOrFetch_raw_compare(fs, idx, url, t) ==
    LET vid == extract_video_id(url)
        info_file == info_path_for(vid)
        found == \E i \in 1..Len(idx) : idx[i].url = url
        touched == touch(fs, info_file, t)
        decoded == _video_metadata_from_json(touched[info_file].text)
    IN  IF found /\ is_file(fs, info_file)
        THEN IF RefreshError(touched) = "none" /\ decoded.err = "none"
             THEN {[err |-> "none", files |-> touched, index |-> i,
                    val |-> decoded.meta, calls |-> 0] : i \in refresh_index(touched)}
             ELSE _fetch_yt_dlp_metadata(touched, idx, url, t)
        ELSE _fetch_yt_dlp_metadata(fs, idx, url, t)

\* get_video_metadata past the reference check: the index scan, the hit
\* (touch, refresh_index, read) and the fall back to a fetch.
LookupOrFetch(fs, idx, url, t) ==
    LET vid == extract_video_id(url)
        info_file == info_path_for(vid)
        found == \E i \in 1..Len(idx) : idx[i].id = vid
        touched == touch(fs, info_file, t)
        decoded == _video_metadata_from_json(touched[info_file].text)
    IN  IF found /\ is_file(fs, info_file)
        THEN IF RefreshError(touched) = "none" /\ decoded.err = "none"
             THEN {[err |-> "none", files |-> touched, index |-> i,
                    val |-> decoded.meta, calls |-> 0] : i \in refresh_index(touched)}
             ELSE _fetch_yt_dlp_metadata(touched, idx, url, t)
        ELSE _fetch_yt_dlp_metadata(fs, idx, url, t)

\* Mutant: the reference is not checked before the index scan.
get_video_metadata_unchecked(fs, idx, url, t) == LookupOrFetch(fs, idx, url, t)

\* get_video_metadata at time t: the set of [err, files, index, val, calls].
get_video_metadata(fs, idx, url, t) ==
    IF extract_video_id(url) = NoId
    THEN {[err |-> "InvalidReference", files |-> fs, index |-> idx,
           val |-> NoMeta, calls |-> 0]}
    ELSE LookupOrFetch(fs, idx, url, t)

\* Mutant: the choices are listed oldest first.
get_cached_prompts_oldest_first(idx) ==
    [i \in 1..Len(idx) |->
        [title |-> idx[Len(idx) + 1 - i].title, url |-> idx[Len(idx) + 1 - i].url]]

\* get_cached_prompts: one PromptChoice(title, url) per entry of the index,
\* in the order of the index.  Reading an attribute of a YouTubeSource
\* never raises, so no entry is left out.
get_cached_prompts(idx) ==
    [i \in 1..Len(idx) |-> [title |-> idx[i].title, url |-> idx[i].url]]

(***************************************************************************)
(* The manager as a state machine: one action per public operation.        *)
(*   files  the cache directory                                            *)
(*   index  yt_source_list                                                 *)
(*   now    the clock that stamps modification times                       *)
(*   ret    the last completed call and how it ended                       *)
(*   locked the files whose unlink fails                                   *)
(*   full   the disk has no room: writing into a file raises OSError       *)
(***************************************************************************)
\* Records handed to cache_VideoMetadata by a direct caller: an id with one
\* of its own references, a non-canonical id with a reference, or neither.
StoreInputs ==
    UNION {{Meta(extract_video_id(u), u, t) : t \in TitlesOf(u)} : u \in Refs}
      \cup {Meta(JunkId, u, "t1") : u \in {"w:A", BadRef}}

LookupInputs == Refs \cup {BadRef}
EvictInputs == (-1)..MaxKeep

\* How a completed call ended.
Outcome(r) ==
    IF r.err # "none" THEN "error"
    ELSE IF r.op = "get" THEN (IF r.calls = 1 THEN "miss" ELSE "hit")
    ELSE "ok"

SameCall(r, op, ref, meta, n) ==
    r.op = op /\ r.ref = ref /\ r.meta = meta /\ r.n = n

\* What a lookup of ref starts from: "stale" when the index has an entry
\* for the id and the Record file is not there, "alias" when the call just
\* before it was a successful lookup of the same id under another
\* reference.
PreOf(op, ref) ==
    LET v == extract_video_id(ref)
    IN  IF op # "get" \/ v = NoId THEN "none"
        ELSE IF (\E i \in 1..Len(index) : index[i].id = v) /\ ~is_file(files, InfoName(v))
        THEN "stale"
        ELSE IF /\ ret.op = "get" /\ ret.err = "none"
                /\ ret.ref # ref /\ extract_video_id(ret.ref) = v
        THEN "alias"
        ELSE "none"

\* What a store of the record meta starts from: "replaces" when the index
\* has an entry for its id and the Record file holds another record, "held"
\* when the index has an entry for its id otherwise.
StorePre(meta) ==
    LET v == meta.video_id
    IN  IF ~\E i \in 1..Len(index) : index[i].id = v THEN "none"
        ELSE IF /\ is_file(files, InfoName(v))
                /\ _video_metadata_from_json(files[InfoName(v)].text).meta # meta
        THEN "replaces"
        ELSE "held"

\* ret.cut is the number of index entries an eviction dropped.
\* ret.again tells a call that repeats the call just before it: "miss" on a
\* lookup that follows a miss of the same reference, "ok" on an eviction
\* that follows a successful eviction with the same count.
\* ret.pre is PreOf of a lookup and StorePre of a store; ret.list is what a
\* listing returned.
Ret(op, ref, meta, n, err, calls, val, cut) ==
    [op |-> op, ref |-> ref, meta |-> meta, n |-> n, err |-> err,
     calls |-> calls, val |-> val, cut |-> cut,
     again |-> IF /\ SameCall(ret, op, ref, meta, n)
                  /\ \/ op = "get" /\ Outcome(ret) = "miss"
                     \/ op = "evict" /\ Outcome(ret) = "ok"
               THEN Outcome(ret) ELSE "none",
     pre |-> PreOf(op, ref),
     list |-> <<>>]

\* A directory that holds no record yet, only artifacts of an older layout.
InitFiles == [nm \in FileNames |-> IF nm \in LegacyNames THEN LegacyFile ELSE NoFile]

NoRet ==
    [op |-> "init", ref |-> "", meta |-> NoMeta, n |-> 0, err |-> "none",
     calls |-> 0, val |-> NoMeta, cut |-> 0, again |-> "none",
     pre |-> "none", list |-> <<>>]

\* The parts of the state a specification does not use stay as they are here.
IdleMgr ==
    /\ files = InitFiles /\ index = <<>> /\ now = 1 /\ ret = NoRet
    /\ locked = {} /\ full = FALSE
IdleStep == dir = <<>> /\ proc = <<>>
IdleCodec == codec = <<>>
IdleUi ==
    /\ floats = <<>> /\ _float = 0 /\ _old_kb = <<>> /\ key_bindings = <<>>
    /\ filename_input = <<>> /\ status_label = "" /\ disk = {}
    /\ allowed_suffixes = {} /\ ev = <<>> /\ kb_at_open = <<>>

\* __init__ over that directory.
Init ==
    /\ files = InitFiles
    /\ index = <<>>
    /\ now = 1
    /\ ret = NoRet
    /\ locked = {}
    /\ full = FALSE
    /\ IdleStep
    /\ IdleCodec
    /\ IdleUi

\* The clock moves on to the next stamp once the current one is in use.
Tick ==
    /\ now < MaxTime
    /\ \E nm \in GlobInfo(files) : files[nm].mtime = now
    /\ now' = now + 1
    /\ UNCHANGED <<files, index, ret, stepVars, codec, locked, full, uiVars>>

Store(meta) ==
    \E c \in cache_VideoMetadata(files, index, meta, now) :
        /\ files' = c.files
        /\ index' = c.index
        /\ ret' = [Ret("store", "", meta, 0, c.err, 0, c.meta, 0)
                     EXCEPT !.pre = StorePre(c.meta)]
        /\ UNCHANGED <<now, stepVars, codec, locked, full, uiVars>>

Get(url) ==
    \E g \in get_video_metadata(files, index, url, now) :
        /\ files' = g.files
        /\ index' = g.index
        /\ ret' = Ret("get", url, NoMeta, 0, g.err, g.calls, g.val, 0)
        /\ UNCHANGED <<now, stepVars, codec, locked, full, uiVars>>

Evict(n) ==
    LET c == crop_cache(files, index, n)
    IN  /\ files' = c.files
        /\ index' = c.index
        /\ ret' = Ret("evict", "", NoMeta, n, c.err, 0, NoMeta, Len(index) - Len(c.index))
        /\ UNCHANGED <<now, stepVars, codec, locked, full, uiVars>>

Refresh ==
    /\ IF RefreshError(files) = "none"
       THEN /\ index' \in refresh_index(files)
            /\ ret' = Ret("refresh", "", NoMeta, 0, "none", 0, NoMeta, 0)
       ELSE /\ index' = index
            /\ ret' = Ret("refresh", "", NoMeta, 0, RefreshError(files), 0, NoMeta, 0)
    /\ UNCHANGED <<files, now, stepVars, codec, locked, full, uiVars>>

\* get_cached_prompts(), as the applications call it to fill their menus.
List ==
    /\ ret' = [Ret("list", "", NoMeta, 0, "none", 0, NoMeta, 0)
                 EXCEPT !.list = get_cached_prompts(index)]
    /\ UNCHANGED <<files, index, now, stepVars, codec, locked, full, uiVars>>

Next ==
    \/ Tick
    \/ \E meta \in StoreInputs : Store(meta)
    \/ \E url \in LookupInputs : Get(url)
    \/ \E n \in EvictInputs : Evict(n)
    \/ Refresh
    \/ List

Spec == Init /\ [][Next]_vars

(***************************************************************************)
(* The manager with a directory that something else also writes: a        *)
(* Record file is overwritten in place with text that is no record.        *)
(***************************************************************************)
EnvIds == {"A", "B"}

\* Texts that are no record encoding: cut short, not an object, an object
\* that lacks required fields.
Garbage ==
    {<<LBrace, Member("video_id", "A")>>,
     <<LBracket, RBracket>>,
     <<LBrace, Member("video_id", "A"), Member("url", "w:A"), RBrace>>}

Corrupt(v, g) ==
    /\ is_file(files, InfoName(v))
    /\ files' = [files EXCEPT ![InfoName(v)] = File(g, now)]
    /\ ret' = Ret("corrupt", v, NoMeta, 0, "none", 0, NoMeta, 0)
    /\ UNCHANGED <<index, now, stepVars, codec, locked, full, uiVars>>

\* The calls made in this setting: one reference and one title per id.
EnvRefs == {"w:A", "w:B"}
EnvStoreInputs == {m \in StoreInputs : m.url \in EnvRefs /\ m.title = "t1"}
EnvLookupInputs == EnvRefs

NextEnv ==
    \/ Tick
    \/ \E meta \in EnvStoreInputs : Store(meta)
    \/ \E url \in EnvLookupInputs : Get(url)
    \/ \E n \in 0..1 : Evict(n)
    \/ Refresh
    \/ \E v \in EnvIds, g \in Garbage : Corrupt(v, g)

SpecEnv == Init /\ [][NextEnv]_vars

(***************************************************************************)
(* The manager on a directory it shares with another manager process: the  *)
(* eviction of the other process unlinks a Record file this manager still   *)
(* has in its index.                                                        *)
(***************************************************************************)
\* p.unlink() of "<v>.info" by the crop_cache of another process.
Unlink(v) ==
    /\ is_file(files, InfoName(v))
    /\ files' = [files EXCEPT ![InfoName(v)] = NoFile]
    /\ ret' = Ret("unlink", v, NoMeta, 0, "none", 0, NoMeta, 0)
    /\ UNCHANGED <<index, now, stepVars, codec, locked, full, uiVars>>

NextShared ==
    \/ Tick
    \/ \E meta \in EnvStoreInputs : Store(meta)
    \/ \E url \in EnvLookupInputs : Get(url)
    \/ \E n \in 0..1 : Evict(n)
    \/ Refresh
    \/ \E v \in EnvIds : Unlink(v)

SpecShared == Init /\ [][NextShared]_vars

(***************************************************************************)
(* The manager under a caller that uses its methods directly: records      *)
(* whose id and reference name different videos are stored, and            *)
(* remove_stale_files_for_video_id is called on its own.                    *)
(***************************************************************************)
\* Records a direct caller stores: those of EnvStoreInputs, a record with
\* the id of A and the reference of B, and a record with neither.
DirectInputs ==
    EnvStoreInputs \cup {Meta("A", "w:B", "t1"), Meta(JunkId, BadRef, "t1")}

\* remove_stale_files_for_video_id(v, keep=keep); ret.n tells whether a
\* file was to be kept, ret.cut how many files the call deleted.
DeletePrefix(v, keep) ==
    LET r == remove_stale_files_for_video_id(files, index, PyStr(v), keep)
    IN  /\ files' = r.files
        /\ index' = r.index
        /\ ret' = Ret("delete", v, NoMeta, IF keep = <<>> THEN 0 ELSE 1, "none", 0, NoMeta,
                      Cardinality({nm \in FileNames :
                                     is_file(files, nm) /\ ~is_file(r.files, nm)}))
        /\ UNCHANGED <<now, stepVars, codec, locked, full, uiVars>>

NextDirect ==
    \/ Tick
    \/ \E meta \in DirectInputs : Store(meta)
    \/ \E url \in EnvLookupInputs : Get(url)
    \/ \E n \in 0..1 : Evict(n)
    \/ Refresh
    \/ \E v \in EnvIds : \E keep \in {<<>>, InfoName(v)} : DeletePrefix(v, keep)

SpecDirect == Init /\ [][NextDirect]_vars

(***************************************************************************)
(* The manager on a directory in which files cannot always be deleted: a   *)
(* file is held open by another program or its permissions are taken       *)
(* away, and from then on p.unlink() raises for it.                        *)
(***************************************************************************)
LockNames == {InfoName(v) : v \in EnvIds} \cup LegacyNames

Lock(nm) ==
    /\ is_file(files, nm)
    /\ nm \notin locked
    /\ locked' = locked \cup {nm}
    /\ ret' = Ret("lock", nm[1], NoMeta, 0, "none", 0, NoMeta, 0)
    /\ UNCHANGED <<files, index, now, stepVars, codec, full, uiVars>>

NextFaults ==
    \/ Tick
    \/ \E meta \in EnvStoreInputs : Store(meta)
    \/ \E url \in EnvLookupInputs : Get(url)
    \/ \E n \in 0..1 : Evict(n)
    \/ \E nm \in LockNames : Lock(nm)

SpecFaults == Init /\ [][NextFaults]_vars

(***************************************************************************)
(* The manager whose cache directory is removed under it, and records are  *)
(* stored afterwards.                                                      *)
(***************************************************************************)
RmDir ==
    /\ files # NoDir
    /\ files' = NoDir
    /\ ret' = Ret("rmdir", "", NoMeta, 0, "none", 0, NoMeta, 0)
    /\ UNCHANGED <<index, now, stepVars, codec, locked, full, uiVars>>

NextNoDir ==
    \/ Tick
    \/ \E meta \in EnvStoreInputs : Store(meta)
    \/ RmDir

SpecNoDir == Init /\ [][NextNoDir]_vars

(***************************************************************************)
(* The manager on a disk that runs out of room and gets room again: while  *)
(* it is full, the write of a Record file fails.                           *)
(***************************************************************************)
Fill ==
    /\ ~full
    /\ full' = TRUE
    /\ ret' = Ret("fill", "", NoMeta, 0, "none", 0, NoMeta, 0)
    /\ UNCHANGED <<files, index, now, stepVars, codec, locked, uiVars>>

Free ==
    /\ full
    /\ full' = FALSE
    /\ ret' = Ret("free", "", NoMeta, 0, "none", 0, NoMeta, 0)
    /\ UNCHANGED <<files, index, now, stepVars, codec, locked, uiVars>>

NextDiskFull ==
    \/ Tick
    \/ \E meta \in DirectInputs : Store(meta)
    \/ \E url \in EnvLookupInputs : Get(url)
    \/ Fill
    \/ Free

SpecDiskFull == Init /\ [][NextDiskFull]_vars

(***************************************************************************)
(* Several manager processes on one directory, one file-system step at a   *)
(* time: the exists-check, the touch, the reads, the temporary file, its   *)
(* writes, the rename and the unlinks are steps of their own, and a        *)
(* process may crash between any two of them.                              *)
(*   dir   the shared directory: name -> [exists, text]                    *)
(*   proc  per process: where it is (pc), the id and reference of its      *)
(*         call, the text it writes, its index (the ids), the ids left to  *)
(*         evict, the texts its last step read from final paths, and the   *)
(*         pc it crashed at                                                *)
(***************************************************************************)
Procs == {"p1", "p2"}
StepIds == {"A", "B"}
StepRefs == {"w:A", "w:B"}
MaxChunks == 2

Absent == [exists |-> FALSE, text |-> <<>>]
Present(text) == [exists |-> TRUE, text |-> text]

\* NamedTemporaryFile(dir=path.parent, delete=False): a name of its own for
\* each writer, with no "<id>." prefix.
TmpName(p) == <<"tmp", p>>
StepNames == {InfoName(v) : v \in StepIds} \cup {TmpName(p) : p \in Procs}
FinalNames == {InfoName(v) : v \in StepIds}

\* Mutant: the text is written straight to the final path.
WriteTarget_in_place(p, path) == path

\* The file _atomic_write_text writes the text to before the rename.
WriteTarget(p, path) == TmpName(p)

\* The records the processes store.
StepRecords == UNION {{Meta(extract_video_id(u), u, t) : t \in TitlesOf(u)} : u \in StepRefs}

\* tf.write(text) reaches the file in at most MaxChunks pieces.
ChunkLen(text) == (Len(text) + MaxChunks - 1) \div MaxChunks
Min(a, b) == IF a < b THEN a ELSE b

IdleProc ==
    [pc |-> "idle", v |-> "", ref |-> "", text |-> <<>>, n |-> 0,
     idx |-> {}, todo |-> {}, obs |-> {}, at |-> ""]

InitSteps ==
    /\ dir = [nm \in StepNames |-> Absent]
    /\ proc = [p \in Procs |-> IdleProc]
    /\ IdleMgr
    /\ IdleCodec
    /\ IdleUi

Step(p, rec) ==
    /\ proc' = [proc EXCEPT ![p] = rec]
    /\ UNCHANGED <<mgrVars, codec, uiVars>>

\* get_video_metadata: resolve, scan the index, info_file.is_file().
BeginGet(p, url) ==
    LET v == extract_video_id(url)
        hit == v \in proc[p].idx /\ dir[InfoName(v)].exists
    IN  /\ proc[p].pc = "idle"
        /\ Step(p, [proc[p] EXCEPT !.pc = IF hit THEN "touch" ELSE "fetch",
                                    !.v = v, !.ref = url, !.obs = {}])
        /\ UNCHANGED dir

\* info_file.touch(): utime, or create the file when it is not there.
Touch(p) ==
    LET f == InfoName(proc[p].v)
    IN  /\ proc[p].pc = "touch"
        /\ dir' = IF dir[f].exists THEN dir ELSE [dir EXCEPT ![f] = Present(<<>>)]
        /\ Step(p, [proc[p] EXCEPT !.pc = "refresh"])

\* refresh_index: read every "*.info"; a text that does not decode raises.
RefreshStep(p) ==
    LET names == {f \in FinalNames : dir[f].exists}
        texts == {dir[f].text : f \in names}
        bad == \E t \in texts : _video_metadata_from_json(t).err # "none"
        ids == {_video_metadata_from_json(t).meta.video_id : t \in texts}
    IN  /\ proc[p].pc = "refresh"
        /\ Step(p, IF bad THEN [proc[p] EXCEPT !.pc = "fetch", !.obs = texts]
                    ELSE [proc[p] EXCEPT !.pc = "read", !.obs = texts, !.idx = ids])
        /\ UNCHANGED dir

\* info_file.read_text() and the decode of what was read.
ReadStep(p) ==
    LET f == InfoName(proc[p].v)
        ok == dir[f].exists /\ _video_metadata_from_json(dir[f].text).err = "none"
    IN  /\ proc[p].pc = "read"
        /\ Step(p, [proc[p] EXCEPT !.pc = IF ok THEN "idle" ELSE "fetch",
                                    !.obs = IF dir[f].exists THEN {dir[f].text} ELSE {}])
        /\ UNCHANGED dir

\* _fetch_yt_dlp_metadata up to the call of cache_VideoMetadata.
Fetch(p) ==
    /\ proc[p].pc = "fetch"
    /\ \E r \in Provider(proc[p].ref) :
          Step(p, IF r.err # "none" THEN [proc[p] EXCEPT !.pc = "idle", !.obs = {}]
                  ELSE [proc[p] EXCEPT !.pc = "cleanup", !.obs = {},
                                       !.text = _video_metadata_to_json(r.meta)])
    /\ UNCHANGED dir

\* cache_VideoMetadata called directly with a record of a canonical id.
BeginStore(p, meta) ==
    /\ proc[p].pc = "idle"
    /\ Step(p, [proc[p] EXCEPT !.pc = "cleanup", !.v = meta.video_id, !.ref = meta.url,
                                !.obs = {}, !.text = _video_metadata_to_json(meta)])
    /\ UNCHANGED dir

\* remove_stale_files_for_video_id(False, keep=info_file): unlink the
\* files named "False.*".
Cleanup(p) ==
    /\ proc[p].pc = "cleanup"
    /\ dir' = [nm \in StepNames |->
                 IF dir[nm].exists /\ StartsWith(nm, Format(PyFalse)) THEN Absent ELSE dir[nm]]
    /\ Step(p, [proc[p] EXCEPT !.pc = "mktemp"])

\* NamedTemporaryFile(...): the file is created, empty.
MkTemp(p) ==
    LET t == WriteTarget(p, InfoName(proc[p].v))
    IN  /\ proc[p].pc = "mktemp"
        /\ dir' = [dir EXCEPT ![t] = Present(<<>>)]
        /\ Step(p, [proc[p] EXCEPT !.pc = "write", !.n = 0])

\* tf.write / tf.flush: the next piece of the text reaches the file; after
\* the last piece the file is closed.
WriteChunk(p) ==
    LET t == WriteTarget(p, InfoName(proc[p].v))
        text == proc[p].text
        n == Min(proc[p].n + ChunkLen(text), Len(text))
    IN  /\ proc[p].pc = "write"
        /\ dir' = IF dir[t].exists THEN [dir EXCEPT ![t] = Present(SubSeq(text, 1, n))]
                   ELSE dir
        /\ Step(p, [proc[p] EXCEPT !.pc = IF n = Len(text) THEN "replace" ELSE "write",
                                    !.n = n])

\* Mutant: the rename gives way to a file that is at the final path.
Replace_keeps_existing(p) ==
    LET f == InfoName(proc[p].v)
        t == WriteTarget(p, f)
    IN  /\ proc[p].pc = "replace"
        /\ dir' = IF t = f THEN dir
                   ELSE IF dir[f].exists THEN [dir EXCEPT ![t] = Absent]
                   ELSE [dir EXCEPT ![f] = dir[t], ![t] = Absent]
        /\ Step(p, [proc[p] EXCEPT !.pc = "prepend"])

\* tmp.replace(path): the rename is one step of the file system.
Replace(p) ==
    LET f == InfoName(proc[p].v)
        t == WriteTarget(p, f)
    IN  /\ proc[p].pc = "replace"
        /\ dir' = IF t = f THEN dir ELSE [dir EXCEPT ![f] = dir[t], ![t] = Absent]
        /\ Step(p, [proc[p] EXCEPT !.pc = "prepend"])

\* _prepend_to_index: stat the file; when it is gone, refresh_index.
Prepend(p) ==
    LET f == InfoName(proc[p].v)
        names == {g \in FinalNames : dir[g].exists}
        texts == {dir[g].text : g \in names}
        bad == \E t \in texts : _video_metadata_from_json(t).err # "none"
        ids == {_video_metadata_from_json(t).meta.video_id : t \in texts}
    IN  /\ proc[p].pc = "prepend"
        /\ Step(p, IF dir[f].exists
                    THEN [proc[p] EXCEPT !.pc = "idle", !.idx = @ \cup {proc[p].v}]
                    ELSE IF bad THEN [proc[p] EXCEPT !.pc = "idle", !.obs = texts]
                    ELSE [proc[p] EXCEPT !.pc = "idle", !.obs = texts, !.idx = ids])
        /\ UNCHANGED dir

\* crop_cache(0): every entry of the index is stale.
BeginEvict(p) ==
    /\ proc[p].pc = "idle"
    /\ proc[p].idx # {}
    /\ Step(p, [proc[p] EXCEPT !.pc = "evict", !.todo = proc[p].idx, !.obs = {}])
    /\ UNCHANGED dir

\* One round of the loop of crop_cache: unlink the files "<id>.*" of one
\* stale id; after the last one the index is the kept slice.
EvictStep(p) ==
    /\ proc[p].pc = "evict"
    /\ IF proc[p].todo = {}
       THEN /\ Step(p, [proc[p] EXCEPT !.pc = "idle", !.idx = {}])
            /\ UNCHANGED dir
       ELSE \E v \in proc[p].todo :
              /\ dir' = [nm \in StepNames |->
                           IF dir[nm].exists /\ StartsWith(nm, v) THEN Absent ELSE dir[nm]]
              /\ Step(p, [proc[p] EXCEPT !.todo = @ \ {v}])

\* The process dies where it is; what it left in the directory stays.
Crash(p) ==
    /\ proc[p].pc \notin {"idle", "crashed"}
    /\ Step(p, [proc[p] EXCEPT !.pc = "crashed", !.at = proc[p].pc])
    /\ UNCHANGED dir

NextSteps ==
    \E p \in Procs :
        \/ \E url \in StepRefs : BeginGet(p, url)
        \/ Touch(p)
        \/ RefreshStep(p)
        \/ ReadStep(p)
        \/ Fetch(p)
        \/ \E meta \in StepRecords : BeginStore(p, meta)
        \/ Cleanup(p)
        \/ MkTemp(p)
        \/ WriteChunk(p)
        \/ Replace(p)
        \/ Prepend(p)
        \/ BeginEvict(p)
        \/ EvictStep(p)
        \/ Crash(p)

SpecSteps == InitSteps /\ [][NextSteps]_vars

(***************************************************************************)
(* The codec on its own: a record is encoded and the text decoded, or a    *)
(* text written by hand is decoded.                                        *)
(*   codec  [pc, kind, rec, text, out]: kind "record" starts from the      *)
(*          record rec; kind "crafted" starts from a text made of rec's    *)
(*          members and keys the record type does not declare; kind        *)
(*          "broken" starts from a text that is no record encoding.        *)
(***************************************************************************)
CodecRecords ==
    {[Meta(v, u, t) EXCEPT !.description = d] :
        v \in {"A", JunkId}, u \in {"w:A", BadRef},
        t \in {"t1", "", "say \"hi\"", "a\\b"}, d \in {"d", ""}}

\* Members a hand-written file may carry besides the declared ones.
Extra == <<Member("web_url", "x"), Member("likes", "7")>>

\* The object text of r with unknown members before, after, or around the
\* declared ones.
Crafted(r) ==
    LET members == SubSeq(_video_metadata_to_json(r), 2, Len(Fields) + 1)
    IN  {<<LBrace>> \o members \o <<Extra[1], RBrace>>,
         <<LBrace, Extra[1]>> \o members \o <<RBrace>>,
         <<LBrace, Extra[2]>> \o members \o <<Extra[1], RBrace>>}

NoOut == [err |-> "", meta |-> NoMeta]

InitCodec ==
    /\ codec \in
          {[pc |-> "start", kind |-> "record", rec |-> r, text |-> <<>>, out |-> NoOut]
             : r \in CodecRecords}
          \cup UNION {{[pc |-> "start", kind |-> "crafted", rec |-> r, text |-> t, out |-> NoOut]
                         : t \in Crafted(r)} : r \in CodecRecords}
          \cup {[pc |-> "start", kind |-> "broken", rec |-> NoMeta, text |-> g, out |-> NoOut]
                  : g \in Garbage}
    /\ IdleMgr
    /\ IdleStep
    /\ IdleUi

Encode ==
    /\ codec.pc = "start" /\ codec.kind = "record"
    /\ codec' = [codec EXCEPT !.pc = "encoded", !.text = _video_metadata_to_json(codec.rec)]
    /\ UNCHANGED <<mgrVars, stepVars, uiVars>>

Decode ==
    /\ \/ codec.pc = "encoded"
       \/ codec.pc = "start" /\ codec.kind # "record"
    /\ codec' = [codec EXCEPT !.pc = "decoded", !.out = _video_metadata_from_json(codec.text)]
    /\ UNCHANGED <<mgrVars, stepVars, uiVars>>

NextCodec == Encode \/ Decode

SpecCodec == InitCodec /\ [][NextCodec]_vars

(***************************************************************************)
(* Properties.                                                             *)
(***************************************************************************)
\* The files of the directory fs whose name starts with "<v>.".
FilesOf(fs, v) == {nm \in FileNames : is_file(fs, nm) /\ StartsWith(nm, v)}

HasEntry(idx, v) == \E i \in 1..Len(idx) : idx[i].id = v

\* The record a reader gets from the Record file of v.
Stored(fs, v) == _video_metadata_from_json(fs[InfoName(v)].text).meta

\* The ids of idx after v moved to its front.
MoveToFront(idx, v) ==
    LET Other(e) == e.id # v
    IN  <<v>> \o IdsOf(SelectSeq(idx, Other))

\* Every store and hit so far had a stamp of its own, and the stamp t of
\* the call is later than all of them.
StrictlyLater(fs, idx, t) ==
    /\ \A nm \in GlobInfo(fs) : fs[nm].mtime < t
    /\ \A i \in 1..Len(idx) : idx[i].mt < t
    /\ \A n1, n2 \in GlobInfo(fs) : fs[n1].mtime = fs[n2].mtime => n1 = n2

\* The step is a completed call of the operation op: only Tick moves the
\* clock, and every call records itself in ret.
Called(op) == now' = now /\ ret'.op = op
DidStore(meta) == Called("store") /\ ret'.meta = meta
DidGet(url) == Called("get") /\ ret'.ref = url
DidEvict(n) == Called("evict") /\ ret'.n = n

\* C1  Miss-then-hit.  A lookup of r on a manager whose index and directory
\* hold nothing for id(r) invokes the provider exactly once and, when it
\* returns, leaves exactly one file for id(r), the Record file; the same
\* lookup immediately after a miss invokes the provider zero times and
\* returns the persisted record, which is the record the miss returned.
C1_MissThenHit ==
    [][\A url \in Refs :
         LET v == extract_video_id(url)
         IN  DidGet(url) =>
               /\ (~HasEntry(index, v) /\ FilesOf(files, v) = {}) =>
                      /\ ret'.calls = 1
                      /\ ret'.err = "none" =>
                            /\ FilesOf(files', v) = {InfoName(v)}
                            /\ Stored(files', v) = ret'.val
               /\ (ret.op = "get" /\ ret.ref = url /\ Outcome(ret) = "miss") =>
                      /\ ret'.err = "none"
                      /\ ret'.calls = 0
                      /\ ret'.val = Stored(files', v)
                      /\ ret'.val = ret.val
                      /\ files'[InfoName(v)].text = files[InfoName(v)].text]_vars

\* C1 witness: the second of two lookups of "w:B", the first one a miss.
C1_Witness ==
    /\ ret.op = "get" /\ ret.ref = "w:B" /\ ret.again = "miss"
    /\ ret.calls = 0 /\ ret.err = "none"
    /\ ret.val = Stored(files, "B")

\* C2  Recency ordering.  When every store and lookup hit is made at a
\* stamp strictly later than the one before, a store or a hit of id v
\* leaves the index listing v first and the other ids in the order they
\* had: the index lists the ids by their most recent store-or-hit, latest
\* first.
C2_RecencyOrdering ==
    [][/\ \A meta \in StoreInputs :
            (DidStore(meta) /\ ret'.err = "none" /\ StrictlyLater(files, index, now)) =>
                IdsOf(index') = MoveToFront(index, ret'.val.video_id)
       /\ \A url \in Refs :
            (DidGet(url) /\ ret'.err = "none" /\ StrictlyLater(files, index, now)) =>
                IdsOf(index') = MoveToFront(index, extract_video_id(url))]_vars

\* C2 witness: store A, store B, store C, lookup A, at stamps 1, 2, 3, 4.
C2_Witness ==
    /\ ret.op = "get" /\ extract_video_id(ret.ref) = "A" /\ Outcome(ret) = "hit"
    /\ IdsOf(index) = <<"A", "C", "B">>
    /\ <<index[1].mt, index[2].mt, index[3].mt>> = <<4, 3, 2>>

\* C4  Stale-artifact cleanup.  A store of a record that carries a
\* canonical id v, made while "v.info" and another "v.<suffix>" exist,
\* leaves no "v.<suffix>" and leaves the new record in "v.info".
C4_StaleCleanup ==
    [][\A meta \in StoreInputs :
         LET v == meta.video_id
         IN  (/\ DidStore(meta)
              /\ extract_video_id(v) = v
              /\ is_file(files, InfoName(v))
              /\ FilesOf(files, v) # {InfoName(v)}) =>
                 /\ FilesOf(files', v) = {InfoName(v)}
                 /\ Stored(files', v) = meta]_vars

\* C5  Idempotent eviction.  An eviction that immediately follows a
\* successful eviction with the same count n >= 0 raises no error and
\* leaves the index and the directory as the first one left them.
C5_IdempotentEviction ==
    [][\A n \in EvictInputs :
         (n >= 0 /\ ret.op = "evict" /\ ret.n = n /\ ret.err = "none" /\ DidEvict(n)) =>
             /\ ret'.err = "none"
             /\ index' = index
             /\ files' = files]_vars

\* C5 witness: evict(1) twice in a row, the first one having dropped entries.
C5_Witness ==
    /\ ret.op = "evict" /\ ret.n = 1 /\ ret.again = "ok" /\ ret.err = "none"
    /\ Len(index) = 1

\* C6  evict(n), n >= 0, leaves the first min(n, L) entries of the index in
\* their order, and no file "<id>.*" of an id that was at a later position.
C6_EvictKeepsPrefix ==
    [][\A n \in EvictInputs :
         (n >= 0 /\ DidEvict(n)) =>
             /\ index' = Take(index, n)
             /\ \A i \in (n + 1)..Len(index) : FilesOf(files', index[i].id) = {}]_vars

\* C6 witness: evict(1) that dropped two of three entries.
C6_Witness ==
    /\ ret.op = "evict" /\ ret.n = 1 /\ ret.cut = 2 /\ ret.err = "none"
    /\ Len(index) = 1
    /\ Cardinality(GlobInfo(files)) = 1

\* C10  A lookup of a reference that yields no id fails with
\* InvalidReference, never invokes the provider, and leaves the index and
\* every file (existence, content, modification time) as they were.
C10_InvalidReference ==
    [][\A url \in LookupInputs :
         (extract_video_id(url) = NoId /\ DidGet(url)) =>
             /\ ret'.err = "InvalidReference"
             /\ ret'.calls = 0
             /\ ret'.val = NoMeta
             /\ index' = index
             /\ files' = files]_vars

\* C10 witness: the failed lookup, on a manager that holds records.
C10_Witness ==
    /\ ret.op = "get" /\ ret.ref = BadRef /\ ret.err = "InvalidReference"
    /\ ret.calls = 0
    /\ index # <<>>

\* The errors of a Record file that does not decode (CorruptRecord).
CorruptRecord == {"JSONDecodeError", "ValueError", "TypeError"}

Malformed(fs, v) ==
    is_file(fs, InfoName(v)) /\ _video_metadata_from_json(fs[InfoName(v)].text).err # "none"

\* C3  Corruption is loud.  A lookup of an id that is in the index and
\* whose Record file holds text that is no record encoding fails with
\* CorruptRecord and returns no record.
C3_CorruptionIsLoud ==
    [][\A url \in Refs :
         LET v == extract_video_id(url)
         IN  (DidGet(url) /\ HasEntry(index, v) /\ Malformed(files, v)) =>
                 /\ ret'.err \in CorruptRecord
                 /\ ret'.val = NoMeta]_vars

\* The steps of _atomic_write_text.
WritePCs == {"mktemp", "write", "replace"}

\* A text is the whole encoding of a record that is stored.
Complete(text) == text \in {_video_metadata_to_json(m) : m \in StepRecords}

\* C7  Crash atomicity of write.  Every step of a write (creating the
\* temporary file, writing a piece, the rename) and a crash at any of them
\* leaves each final path as it was (absent, or its previous version) or,
\* for the path written, holding the complete new text: never a part of it.
C7_CrashAtomicWrite ==
    [][\A p \in Procs :
         (proc[p].pc \in WritePCs /\ proc'[p] # proc[p]) =>
             \A f \in FinalNames :
                 \/ dir'[f] = dir[f]
                 \/ /\ f = InfoName(proc[p].v)
                    /\ dir'[f] = Present(proc[p].text)
                    /\ Complete(dir'[f].text)]_vars

\* C7 witness: a writer crashed with part of the new text in its temporary
\* file, and the final path still holds the whole previous version.
C7_Witness ==
    \E p \in Procs :
        LET f == InfoName(proc[p].v)
            t == dir[TmpName(p)]
        IN  /\ proc[p].pc = "crashed" /\ proc[p].at = "write"
            /\ t.exists /\ t.text # <<>> /\ t.text # proc[p].text
            /\ dir[f].exists /\ Complete(dir[f].text) /\ dir[f].text # proc[p].text

\* C8  Concurrent readers.  Whatever the interleaving of the processes'
\* steps, a read of a final path that finds a file finds the complete
\* encoding of a record that a store wrote, never an empty or partial text.
C8_ReadersSeeComplete ==
    \A p \in DOMAIN proc : \A text \in proc[p].obs : Complete(text)

\* C9  Round-trip.  Decoding the text that encoding a record produced
\* yields the record, equal on every declared field; decoding an object
\* that has the declared fields and keys besides them succeeds and yields
\* the record of the declared fields alone.
C9_RoundTrip ==
    (codec.pc = "decoded" /\ codec.kind \in {"record", "crafted"}) =>
        /\ codec.out.err = "none"
        /\ DOMAIN codec.out.meta = FieldSet
        /\ \A k \in FieldSet : codec.out.meta[k] = codec.rec[k]

\* C9 witness: a record whose title needs escaping came back from its own
\* text, and a hand-written object with an unknown key was decoded.
C9_Witness ==
    /\ codec.pc = "decoded"
    /\ \/ codec.kind = "record" /\ codec.rec.title = "say \"hi\""
          /\ codec.text[4] # Member("title", codec.rec.title)
       \/ codec.kind = "crafted" /\ "web_url" \in Keys(codec.text)
    /\ codec.out.meta = codec.rec

\* The index has an entry for v and the Record file of v is there: the
\* lookup of v takes the hit branch.
TakesHit(fs, idx, v) == HasEntry(idx, v) /\ is_file(fs, InfoName(v))

\* C11  Provider failure.  A lookup that reaches miss handling invokes the
\* provider exactly once and ends as that one invocation ended: with the
\* provider's failure when it failed (no second attempt, no other result),
\* with the provider's record when it succeeded.
C11_ProviderFailure ==
    [][\A url \in Refs :
         LET v == extract_video_id(url)
         IN  (DidGet(url) /\ ~TakesHit(files, index, v)) =>
                 /\ ret'.calls = 1
                 /\ \/ ret'.err = "ProviderError" /\ ret'.val = NoMeta
                    \/ /\ ret'.err = "none"
                       /\ \E p \in Provider(url) : p.err = "none" /\ p.meta = ret'.val]_vars

\* C11 witness: a lookup of an id the manager does not hold, on a manager
\* that holds another one, ended with the failure of the provider after
\* one invocation.
C11_Witness ==
    /\ ret.op = "get" /\ ret.ref = "w:B" /\ ret.err = "ProviderError" /\ ret.calls = 1
    /\ ~HasEntry(index, "B") /\ HasEntry(index, "A")

\* C12  An eviction with a negative count fails with InvalidArgument and
\* leaves the index, entries and order, and every file as they were.
C12_NegativeEviction ==
    [][\A n \in EvictInputs :
         (n < 0 /\ DidEvict(n)) =>
             /\ ret'.err = "InvalidArgument"
             /\ index' = index
             /\ files' = files]_vars

\* C12 witness: evict(-1) failed on a manager that holds two records.
C12_Witness ==
    /\ ret.op = "evict" /\ ret.n = -1 /\ ret.err = "InvalidArgument"
    /\ Len(index) = 2
    /\ Cardinality(GlobInfo(files)) = 2

\* The entries of idx stand newest first, by the modification times of
\* their Record files in fs.
NewestFirst(fs, idx) ==
    \A i, j \in 1..Len(idx) :
        i < j => fs[InfoName(idx[i].id)].mtime >= fs[InfoName(idx[j].id)].mtime

\* C13  A listing is a read-only projection.  It returns one {title,
\* reference} pair per entry of the index, in the order of the index, which
\* is newest first, and it changes neither the index nor any file.
C13_ListIsProjection ==
    [][Called("list") =>
         /\ Len(ret'.list) = Len(index)
         /\ \A i \in 1..Len(index) :
               ret'.list[i] = [title |-> index[i].title, url |-> index[i].url]
         /\ NewestFirst(files, index)
         /\ index' = index
         /\ files' = files]_vars

\* C13 witness: a listing of three records, the one of A newest and under
\* the second of its titles.
C13_Witness ==
    /\ ret.op = "list"
    /\ Len(ret.list) = 3
    /\ ret.list[1] = [title |-> "t2", url |-> "w:A"]
    /\ ret.list[2].url = "w:C"
    /\ ret.list[3].url = "w:B"

\* The number of entries of idx for the id v.
CountOf(idx, v) == Cardinality({i \in 1..Len(idx) : idx[i].id = v})

\* C14  Resolve-before-compare.  For references r1 # r2 of one id, a lookup
\* of r2 that follows a successful lookup of r1 is a hit: the provider is
\* not invoked, the stored record is returned, and the index has exactly
\* one entry for the id.
C14_ResolveBeforeCompare ==
    [][\A r1, r2 \in Refs :
         LET v == extract_video_id(r2)
         IN  (/\ r1 # r2 /\ extract_video_id(r1) = v
              /\ ret.op = "get" /\ ret.ref = r1 /\ ret.err = "none"
              /\ DidGet(r2)) =>
                 /\ ret'.err = "none"
                 /\ ret'.calls = 0
                 /\ ret'.val = Stored(files, v)
                 /\ ret'.val = Stored(files', v)
                 /\ CountOf(index', v) = 1]_vars

\* C14 witness: "s:A" looked up right after a lookup of "w:A" that fetched
\* the record: the record came back with the reference it was stored under.
C14_Witness ==
    /\ ret.op = "get" /\ ret.ref = "s:A" /\ ret.pre = "alias"
    /\ ret.err = "none" /\ ret.calls = 0
    /\ ret.val.url = "w:A"
    /\ CountOf(index, "A") = 1

\* C15  A lookup that finds the Record file of its id present but malformed
\* does not invoke the provider and leaves that file with the malformed
\* content it had.
C15_CorruptRecordKept ==
    [][\A url \in EnvRefs :
         LET v == extract_video_id(url)
         IN  (DidGet(url) /\ Malformed(files, v)) =>
                 /\ ret'.calls = 0
                 /\ is_file(files', InfoName(v))
                 /\ files'[InfoName(v)].text = files[InfoName(v)].text]_vars

\* C16  No divergence is left behind by a lookup.  When a lookup returns,
\* with a record or with an error, the index has no entry for the id looked
\* up whose Record file is not in the directory.
C16_LookupHealsDivergence ==
    [][\A url \in EnvRefs :
         LET v == extract_video_id(url)
         IN  DidGet(url) => (HasEntry(index', v) => is_file(files', InfoName(v)))]_vars

\* C17  A successful hit changes recency only.  A lookup that returns a
\* record without invoking the provider leaves the content of every file
\* as it was, creates and deletes no file, and changes the modification
\* time of no file but the Record file of the id looked up.
C17_HitChangesRecencyOnly ==
    [][\A url \in Refs :
         LET v == extract_video_id(url)
         IN  (DidGet(url) /\ ret'.err = "none" /\ ret'.calls = 0) =>
                 \A nm \in FileNames :
                     /\ is_file(files', nm) = is_file(files, nm)
                     /\ files'[nm].text = files[nm].text
                     /\ nm # InfoName(v) => files'[nm].mtime = files[nm].mtime]_vars

\* C17 witness: a hit on A left its Record file with a later time than the
\* Record file of B, both with the content they were stored with, and the
\* artifact "A.legacy" is still there with the time it had.
C17_Witness ==
    /\ ret.op = "get" /\ extract_video_id(ret.ref) = "A" /\ Outcome(ret) = "hit"
    /\ is_file(files, InfoName("B"))
    /\ files[InfoName("A")].mtime > files[InfoName("B")].mtime
    /\ Stored(files, "A").title = "t1" /\ Stored(files, "B").title = "t1"
    /\ files[<<"A", "legacy">>] = LegacyFile

\* C18  A stale hit falls through to a miss.  A lookup of r made while the
\* index has an entry for id(r) and the Record file is absent invokes the
\* provider exactly once and, when the provider answers, persists the
\* fetched record at "<id>.info" and returns it; afterwards the index has
\* exactly one entry for the id.
C18_StaleHitIsMiss ==
    [][\A url \in EnvRefs :
         LET v == extract_video_id(url)
         IN  (DidGet(url) /\ HasEntry(index, v) /\ ~is_file(files, InfoName(v))) =>
                 /\ ret'.calls = 1
                 /\ CountOf(index', v) = 1
                 /\ ret'.err = "none" =>
                       /\ \E p \in Provider(url) : p.err = "none" /\ p.meta = ret'.val
                       /\ is_file(files', InfoName(v))
                       /\ Stored(files', v) = ret'.val]_vars

\* C18 witness: a lookup of "w:B" that started from a stale entry fetched
\* the record and wrote "B.info" anew.
C18_Witness ==
    /\ ret.op = "get" /\ ret.ref = "w:B" /\ ret.pre = "stale"
    /\ ret.err = "none" /\ ret.calls = 1
    /\ Stored(files, "B") = ret.val
    /\ CountOf(index, "B") = 1

\* The "*.info" files of fs that decode to a record.
Readable(fs) == {nm \in GlobInfo(fs) : _video_metadata_from_json(fs[nm].text).err = "none"}

\* C19  A rebuild makes the index a function of the directory.  After
\* rebuild_index the index holds exactly one entry per readable "*.info"
\* file, with the current modification time of that file, sorted by
\* modification time descending, whatever it held before.
C19_IndexFromDirectory ==
    [][Called("refresh") =>
         /\ Len(index') = Cardinality(Readable(files))
         /\ \A nm \in Readable(files) :
               \E i \in 1..Len(index') :
                   index'[i] = Entry(files[nm].mtime,
                                     _video_metadata_from_json(files[nm].text).meta)
         /\ IsSortedDesc(index')]_vars

\* C20  The scan skips malformed entries.  With valid Record files and a
\* "*.info" file that is no record encoding in the directory,
\* rebuild_index completes without error and the index holds exactly the
\* valid records.
C20_ScanSkipsMalformed ==
    [][(/\ Called("refresh")
        /\ Readable(files) # {}
        /\ GlobInfo(files) \ Readable(files) # {}) =>
            /\ ret'.err = "none"
            /\ {index'[i].id : i \in 1..Len(index')}
                  = {_video_metadata_from_json(files[nm].text).meta.video_id
                       : nm \in Readable(files)}]_vars

\* The position of the entry of v in idx.
PosOf(idx, v) == CHOOSE i \in 1..Len(idx) : idx[i].id = v

\* C21  Tie-break.  After a successful store or lookup hit of id v, the
\* entry of v stands ahead of every entry that carries the same timestamp,
\* and two other entries with one timestamp keep the order they had.
C21_TieBreak ==
    [][(/\ Called("store") \/ (Called("get") /\ ret'.calls = 0)
        /\ ret'.err = "none") =>
           LET v == ret'.val.video_id
           IN  /\ \A j \in 1..Len(index') :
                     (index'[j].id # v /\ index'[j].mt = index'[PosOf(index', v)].mt)
                         => PosOf(index', v) < j
               /\ \A a, b \in (Ids \ {v}) :
                     (/\ HasEntry(index, a) /\ HasEntry(index, b)
                      /\ HasEntry(index', a) /\ HasEntry(index', b)
                      /\ index'[PosOf(index', a)].mt = index'[PosOf(index', b)].mt
                      /\ PosOf(index, a) < PosOf(index, b))
                         => PosOf(index', a) < PosOf(index', b)]_vars

\* C22  No duplicate ids.  On a directory that only this manager writes,
\* the index never has two entries with one id, whatever the sequence of
\* stores, lookups, evictions and rebuilds; a store for an id that has an
\* entry replaces the entry.
C22_NoDuplicateIds ==
    \A i, j \in 1..Len(index) : index[i].id = index[j].id => i = j

\* C22 witness: a record for A was stored while the index had an entry for
\* A and entries for B and C; the index has three entries, A's being new.
C22_Witness ==
    /\ ret.op = "store" /\ ret.pre # "none" /\ ret.err = "none"
    /\ ret.val.video_id = "A" /\ ret.val.title = "t2"
    /\ Len(index) = 3
    /\ index[1].id = "A" /\ index[1].title = "t2"

\* C23  Wholesale replace.  A store of r2 for an id whose Record file holds
\* a record leaves the file with the encoding of r2 and nothing else, so
\* that reading it yields r2 on every field, and leaves the index entry of
\* the id with the reference and the title of r2.
C23_WholesaleReplace ==
    [][\A meta \in StoreInputs :
         (DidStore(meta) /\ ret'.err = "none") =>
             LET v == ret'.val.video_id
                 r2 == [meta EXCEPT !.video_id = v]
             IN  is_file(files, InfoName(v)) =>
                   /\ files'[InfoName(v)].text = _video_metadata_to_json(r2)
                   /\ Stored(files', v) = r2
                   /\ CountOf(index', v) = 1
                   /\ index'[PosOf(index', v)].url = r2.url
                   /\ index'[PosOf(index', v)].title = r2.title]_vars

\* C23 witness: the Record file of A, which held the record with the other
\* title, holds the record of the store, and so does the index entry.
C23_Witness ==
    /\ ret.op = "store" /\ ret.pre = "replaces" /\ ret.err = "none"
    /\ ret.meta = Meta("A", "w:A", "t1")
    /\ Stored(files, "A") = Meta("A", "w:A", "t1")
    /\ \E i \in 1..Len(index) : index[i].id = "A" /\ index[i].title = "t1"
    /\ now > 1

\* C24  A store corrects a mismatched identifier.  When the id of the
\* record differs from the id the resolver derives from the record's
\* reference, the Record file written is named after the derived id and
\* the record in it carries that id; when neither the id nor the reference
\* yields an id, the store fails with UnresolvableIdentifier and changes
\* neither the directory nor the index.
C24_StoreCorrectsId ==
    [][\A meta \in DirectInputs :
         LET derived == extract_video_id(meta.url)
         IN  DidStore(meta) =>
               /\ (derived # NoId /\ meta.video_id # derived) =>
                     /\ ret'.err = "none"
                     /\ ret'.val.video_id = derived
                     /\ files'[InfoName(derived)]
                          = File(_video_metadata_to_json([meta EXCEPT !.video_id = derived]), now)
               /\ (derived = NoId /\ extract_video_id(meta.video_id) = NoId) =>
                     /\ ret'.err = "UnresolvableIdentifier"
                     /\ files' = files
                     /\ index' = index]_vars

\* C25  Join key.  Under the manager's own operations on a directory it
\* alone writes, the id of every index entry is the base name of a Record
\* file that is there and the id stored inside that file.
C25_JoinKey ==
    \A i \in 1..Len(index) :
        /\ InfoName(index[i].id) \in FileNames
        /\ is_file(files, InfoName(index[i].id))
        /\ Stored(files, index[i].id).video_id = index[i].id

\* C25 witness: a record that came with an id that is none was stored
\* under the id of its reference, and file name, stored id and index entry
\* agree on it.
C25_Witness ==
    /\ ret.op = "store" /\ ret.err = "none"
    /\ ret.meta.video_id = JunkId /\ ret.val.video_id = "A"
    /\ index[1].id = "A"
    /\ Stored(files, "A").video_id = "A"
    /\ Len(index) = 2

\* C26  A cleanup failure never fails the primary operation.  Whether or
\* not the deletion of a stale file fails, a store of a resolvable record
\* writes the Record file, leaves one index entry for the record and
\* returns normally, and an eviction with n >= 0 returns normally with the
\* index cut to its first n entries.
C26_CleanupFailureSwallowed ==
    [][/\ \A meta \in EnvStoreInputs :
            DidStore(meta) =>
                LET v == ret'.val.video_id
                IN  /\ ret'.err = "none"
                    /\ files'[InfoName(v)] = File(_video_metadata_to_json(ret'.val), now)
                    /\ CountOf(index', v) = 1
                    /\ index'[PosOf(index', v)] = Entry(now, ret'.val)
       /\ \A n \in 0..1 :
            DidEvict(n) =>
                /\ ret'.err = "none"
                /\ index' = Take(index, n)]_vars

\* C26 witness: an eviction that was to delete "A.info" and "A.legacy"
\* could delete neither, returned normally and left the index empty.
C26_Witness ==
    /\ ret.op = "evict" /\ ret.n = 0 /\ ret.err = "none" /\ ret.cut = 1
    /\ index = <<>>
    /\ {InfoName("A"), <<"A", "legacy">>} \subseteq locked
    /\ is_file(files, InfoName("A")) /\ is_file(files, <<"A", "legacy">>)
    /\ Stored(files, "A").url = "w:A"

\* The steps of a store: cleanup, the write and the index update.
StorePCs == {"cleanup", "mktemp", "write", "replace", "prepend"}

\* C27  Last writer wins.  In every interleaving of the steps of the
\* processes, the rename of a store puts the complete record of that store
\* at "<id>.info" whatever was there, and no other step of a store changes
\* a final path: when stores of one id have returned, the file holds the
\* record of the store whose rename came last.
C27_LastWriterWins ==
    [][\A p \in Procs :
         (/\ proc[p].pc \in StorePCs
          /\ proc'[p] # proc[p]
          /\ proc'[p].pc # "crashed") =>
             \A f \in FinalNames :
                 IF proc[p].pc = "replace" /\ f = InfoName(proc[p].v)
                 THEN dir'[f] = Present(proc[p].text) /\ Complete(proc[p].text)
                 ELSE dir'[f] = dir[f]]_vars

\* C27 witness: two processes have stored different records for one id and
\* are back idle with the id in their indexes; the file holds the record
\* of one of them, and the temporary files are gone.
C27_Witness ==
    \E p, q \in Procs :
        /\ p # q
        /\ proc[p].pc = "idle" /\ proc[q].pc = "idle"
        /\ proc[p].v = proc[q].v /\ proc[p].v \in StepIds
        /\ proc[p].v \in proc[p].idx /\ proc[q].v \in proc[q].idx
        /\ Complete(proc[p].text) /\ Complete(proc[q].text)
        /\ proc[p].text # proc[q].text
        /\ dir[InfoName(proc[q].v)] = Present(proc[q].text)
        /\ ~dir[TmpName(p)].exists /\ ~dir[TmpName(q)].exists

\* C28  Prefix deletion touches only the named id.  delete_prefix(v, keep)
\* removes exactly the files named "<v>.*" other than keep and leaves every
\* other file as it is; an eviction leaves the Record file of every id it
\* retains as it is, and a store leaves the Record file of every id other
\* than the one it stores as it is.
C28_PrefixDeletionOnly ==
    [][/\ \A v \in EnvIds : \A keep \in {<<>>, InfoName(v)} :
            (/\ Called("delete") /\ ret'.ref = v
             /\ ret'.n = (IF keep = <<>> THEN 0 ELSE 1)) =>
                \A nm \in FileNames :
                    files'[nm] = IF is_file(files, nm) /\ StartsWith(nm, v) /\ nm # keep
                                 THEN NoFile ELSE files[nm]
       /\ \A n \in 0..1 :
            DidEvict(n) =>
                \A i \in 1..Len(Take(index, n)) :
                    files'[InfoName(index[i].id)] = files[InfoName(index[i].id)]
       /\ \A meta \in DirectInputs :
            DidStore(meta) =>
                \A b \in Ids \ {ret'.val.video_id} :
                    files'[InfoName(b)] = files[InfoName(b)]]_vars

\* C28 witness: delete_prefix("A", keep="A.info") deleted one file,
\* "A.legacy"; "A.info" and "B.info" are there.
C28_Witness ==
    /\ ret.op = "delete" /\ ret.ref = "A" /\ ret.n = 1 /\ ret.cut = 1
    /\ ~is_file(files, <<"A", "legacy">>)
    /\ is_file(files, InfoName("A"))
    /\ is_file(files, InfoName("B"))

\* C29  A store creates the store directory when needed.  A store of a
\* resolvable record made while the directory does not exist creates it,
\* persists "<id>.info" in it and returns normally with the id at the
\* front of the index.
C29_StoreCreatesDirectory ==
    [][\A meta \in EnvStoreInputs :
         (DidStore(meta) /\ files = NoDir) =>
             LET v == extract_video_id(meta.url)
             IN  /\ ret'.err = "none"
                 /\ files' # NoDir
                 /\ is_file(files', InfoName(v))
                 /\ index' # <<>>
                 /\ index'[1].id = v]_vars

\* C30  The index is ordered newest first.  After every completed
\* operation of the manager (construction, rebuild, store, lookup,
\* eviction, delete_prefix) the timestamps of consecutive index entries
\* are non-increasing.
C30_IndexNewestFirst == IsSortedDesc(index)

\* C30 witness: a lookup hit rebuilt an index of two entries from the
\* directory, the entry that was hit carrying the later timestamp.
C30_Witness ==
    /\ ret.op = "get" /\ Outcome(ret) = "hit"
    /\ Len(index) = 2
    /\ index[1].id = extract_video_id(ret.ref)
    /\ index[1].mt > index[2].mt
    /\ index[2].mt = files[InfoName(index[2].id)].mtime

\* C31  A hit is independent of other records.  A lookup of a reference
\* that resolves to an id which is in the index and whose "<id>.info" is
\* present and well-formed returns the stored record of that id without
\* invoking the provider, whatever the Record files of the other ids hold,
\* a malformed file of another id included.
C31_HitIndependent ==
    [][\A url \in EnvRefs :
         LET v == extract_video_id(url)
         IN  (/\ DidGet(url)
              /\ HasEntry(index, v)
              /\ is_file(files, InfoName(v))
              /\ ~Malformed(files, v)) =>
                 /\ ret'.err = "none"
                 /\ ret'.calls = 0
                 /\ ret'.val = Stored(files, v)]_vars

\* C32  Eviction agrees with disk.  After evict(n) has returned, a rebuild
\* of the index that follows yields the ids that the eviction left, in the
\* same order, and the directory holds at most n Record files.
C32_EvictionAgreesWithDisk ==
    [][(ret.op = "evict" /\ ret.err = "none" /\ Called("refresh")) =>
           /\ ret'.err = "none"
           /\ IdsOf(index') = IdsOf(index)
           /\ Cardinality(GlobInfo(files)) <= ret.n]_vars

\* C33  A failed store changes nothing for that id.  When a store fails
\* while the Record file is being written, before the rename, the
\* "<id>.info" that existed before is unchanged and the index holds the
\* entries it held before the call, in the same order, the prior entry of
\* that id included.
C33_FailedStoreChangesNothing ==
    [][\A meta \in DirectInputs :
         (DidStore(meta) /\ ret'.err = "OSError") =>
             LET v == ret'.val.video_id
             IN  /\ files'[InfoName(v)] = files[InfoName(v)]
                 /\ index' = index]_vars

\* C34  A lookup in which the provider fails leaves the cache as it was.
\* It writes and deletes no file of the directory, and the index holds the
\* same entries in the same order as before the call.
C34_ProviderFailureLeavesCache ==
    [][\A url \in EnvLookupInputs :
         (DidGet(url) /\ ret'.calls = 1 /\ ret'.err = "ProviderError") =>
             /\ files' = files
             /\ index' = index]_vars

\* C34 witness: the provider failed in a lookup of an id whose index entry
\* had lost its file, while the cache held the record of another id.
C34_Witness ==
    /\ ret.op = "get" /\ ret.calls = 1 /\ ret.err = "ProviderError"
    /\ ret.pre = "stale"
    /\ HasEntry(index, extract_video_id(ret.ref))
    /\ \E v \in EnvIds : v # extract_video_id(ret.ref) /\ is_file(files, InfoName(v))

(***************************************************************************)
(* The save dialog of the application: lib/ui/file_save_dialog.py, opened  *)
(* by the c-s binding of aldale_yt_app.build_app.                          *)
(*   floats            root_container.floats, each [content, path, id]: a  *)
(*                     Float of the dialog has an id of its own, the Float *)
(*                     of a confirmation has id 0 and the path it asks for *)
(*   _float            the id of the dialog's Float, 0 for None            *)
(*   _old_kb           the key bindings open() saved, <<>> for None        *)
(*   key_bindings      app.key_bindings: the binding sets it merges, in    *)
(*                     order, <<>> for None                                *)
(*   filename_input    the text of the file name field, a token sequence   *)
(*   status_label      the message under the field                         *)
(*   disk              the regular files of the folder shown               *)
(*   allowed_suffixes  config.allowed_suffixes                             *)
(*   ev                the handler that ran last and its on_accept call    *)
(*   kb_at_open        app.key_bindings as the last open() that opened the *)
(*                     dialog found them                                   *)
(* The folder shown stays the same one and is readable; the entry list,    *)
(* the focus and invalidate() are presentation and are left out.  A        *)
(* handler may run whenever its button or key binding is there.            *)
(***************************************************************************)
MaxFloats == 2

Space == " "
Quote == "\""

Path(stem, suffix) == [stem |-> stem, suffix |-> suffix]
NoPath == Path("", "")

\* The folders of the folder shown, and the file it holds at the start.
Dirs == {Path("sub", ""), Path("pkg", ".md")}
InitDisk == {Path("old", ".md")}

exists(d, p) == p \in Dirs \/ p \in d
is_dir(p) == p \in Dirs

\* allowed_suffixes: None (the default of FileSaveDialogConfig) or the set
\* the application configures.
NoneSuffixes == {"*"}
Configs == {NoneSuffixes, {".md", ".txt"}}

\* str.lower() on the suffixes in use.
lower(s) == IF s = ".MD" THEN ".md" ELSE s

with_suffix(p, suffix) == [p EXCEPT !.suffix = suffix]

\* What the field may hold: a name and its suffix, bare, padded with
\* blanks or quoted, or nothing but blanks or quotes.
Names ==
    {<<"new", ".md">>, <<"new", ".MD">>, <<"new", ".py">>,
     <<"old">>, <<"old", ".md">>, <<"sub">>, <<"pkg", ".md">>}
Texts ==
    {<<Space, Quote, Quote, Space>>}
      \cup Names
      \cup {<<Space, Quote, "old", ".md", Quote, Space>>}

\* default_filename() of the application: "<video id>.md".
DefaultNames == {<<"new", ".md">>}

\* str.strip(ch).
RECURSIVE strip(_, _)
strip(text, ch) ==
    IF text # <<>> /\ Head(text) = ch THEN strip(Tail(text), ch)
    ELSE IF text # <<>> /\ text[Len(text)] = ch
    THEN strip(SubSeq(text, 1, Len(text) - 1), ch)
    ELSE text

\* self.cwd / Path(raw_name) for a relative name.
PathOf(raw_name) ==
    Path(raw_name[1], IF Len(raw_name) > 1 THEN raw_name[2] ELSE "")

\* Mutant: a name that exists as a file is saved at once.
_save_clicked_saves_over(text, allowed, d) ==
    LET raw_name == strip(strip(text, Space), Quote)
        path0 == PathOf(raw_name)
        suffix == lower(path0.suffix)
        preferred == IF ".md" \in allowed THEN ".md" ELSE CHOOSE x \in allowed : TRUE
        path == IF allowed # NoneSuffixes /\ suffix \notin allowed /\ suffix = ""
                THEN with_suffix(path0, preferred) ELSE path0
    IN  IF raw_name = <<>>
        THEN [do |-> "status", status |-> "Enter a file name.", path |-> NoPath]
        ELSE IF allowed # NoneSuffixes /\ suffix \notin allowed /\ suffix # ""
        THEN [do |-> "status", status |-> "File must be one of", path |-> path]
        ELSE IF exists(d, path) /\ is_dir(path)
        THEN [do |-> "status", status |-> "That name points to a folder, not a file.",
              path |-> path]
        ELSE [do |-> "save", status |-> "", path |-> path]

\* _save_clicked up to its last step: the message it shows, or the path it
\* hands to _confirm_overwrite or to _do_save.  sorted(allowed)[0] is taken
\* on a set of one suffix.
_save_clicked(text, allowed, d) ==
    LET raw_name == strip(strip(text, Space), Quote)
        path0 == PathOf(raw_name)
        suffix == lower(path0.suffix)
        preferred == IF ".md" \in allowed THEN ".md" ELSE CHOOSE x \in allowed : TRUE
        path == IF allowed # NoneSuffixes /\ suffix \notin allowed /\ suffix = ""
                THEN with_suffix(path0, preferred) ELSE path0
    IN  IF raw_name = <<>>
        THEN [do |-> "status", status |-> "Enter a file name.", path |-> NoPath]
        ELSE IF allowed # NoneSuffixes /\ suffix \notin allowed /\ suffix # ""
        THEN [do |-> "status", status |-> "File must be one of", path |-> path]
        ELSE IF exists(d, path) /\ is_dir(path)
        THEN [do |-> "status", status |-> "That name points to a folder, not a file.",
              path |-> path]
        ELSE IF exists(d, path)
        THEN [do |-> "confirm", status |-> "", path |-> path]
        ELSE [do |-> "save", status |-> "", path |-> path]

\* Float(content=self.dialog): an object of its own.
NewFloat(fl) ==
    CHOOSE i \in 1..(Len(fl) + 1) : \A j \in 1..Len(fl) : fl[j].id # i

\* floats.remove(self._float) when _float is not None and is in floats.
Remove(fl, id) ==
    LET Other(f) == f.id # id
    IN  IF id = 0 THEN fl ELSE SelectSeq(fl, Other)

\* floats.remove(confirm_float) for the confirmation at position i, 0 when
\* there is none.
RemoveAt(fl, i) ==
    [j \in 1..(Len(fl) - (IF i \in 1..Len(fl) THEN 1 ELSE 0)) |->
        IF i = 0 \/ j < i THEN fl[j] ELSE fl[j + 1]]

is_open == _float # 0

\* open(): what it leaves of floats, _float, _old_kb, app.key_bindings and
\* status_label.  merge_key_bindings of the bindings that are not None is
\* the old ones, if any, followed by the dialog's own.
open(fl, flt, okb, kbs, status) ==
    IF flt # 0
    THEN [floats |-> fl, float |-> flt, old_kb |-> okb, key_bindings |-> kbs,
          status |-> status]
    ELSE LET id == NewFloat(fl)
         IN  [floats |-> Append(fl, [content |-> "dialog", path |-> NoPath, id |-> id]),
              float |-> id, old_kb |-> kbs, key_bindings |-> kbs \o <<"_kb">>,
              status |-> ""]

\* close().
close(fl, flt, okb, kbs) ==
    [floats |-> Remove(fl, flt), float |-> 0, old_kb |-> <<>>,
     key_bindings |-> IF okb # <<>> THEN okb ELSE kbs]

Ev(op, path, called, raised) ==
    [op |-> op, path |-> path, called |-> called, raised |-> raised,
     was_open |-> is_open]

\* FileSaveDialog(app, root, on_accept, config) on an application that was
\* built with key bindings (build_app) or without (the default of
\* Application).
InitDialog ==
    /\ IdleMgr
    /\ IdleStep
    /\ IdleCodec
    /\ floats = <<>>
    /\ _float = 0
    /\ _old_kb = <<>>
    /\ key_bindings \in {<<>>, <<"kb">>}
    /\ kb_at_open = key_bindings
    /\ filename_input \in DefaultNames
    /\ status_label = ""
    /\ disk = InitDisk
    /\ allowed_suffixes \in Configs
    /\ ev = [op |-> "init", path |-> NoPath, called |-> FALSE, raised |-> FALSE,
             was_open |-> FALSE]

\* open(), called by whoever holds the dialog.
Open ==
    /\ is_open \/ Len(floats) < MaxFloats
    /\ LET o == open(floats, _float, _old_kb, key_bindings, status_label)
       IN  /\ floats' = o.floats
           /\ _float' = o.float
           /\ _old_kb' = o.old_kb
           /\ key_bindings' = o.key_bindings
           /\ status_label' = o.status
    /\ kb_at_open' = IF is_open THEN kb_at_open ELSE key_bindings
    /\ ev' = Ev("open", NoPath, FALSE, FALSE)
    /\ UNCHANGED <<filename_input, disk, allowed_suffixes, mgrVars, stepVars, codec>>

any_modal_open == is_open

\* The c-s binding of build_app, there while the bindings of the
\* application are in force.
CtrlS(name) ==
    /\ \E i \in 1..Len(key_bindings) : key_bindings[i] = "kb"
    /\ is_open \/ Len(floats) < MaxFloats
    /\ IF any_modal_open
       THEN UNCHANGED <<floats, _float, _old_kb, key_bindings, status_label,
                        filename_input, kb_at_open>>
       ELSE LET o == open(floats, _float, _old_kb, key_bindings, status_label)
            IN  /\ filename_input' = name
                /\ floats' = o.floats
                /\ _float' = o.float
                /\ _old_kb' = o.old_kb
                /\ key_bindings' = o.key_bindings
                /\ status_label' = o.status
                /\ kb_at_open' = key_bindings
    /\ ev' = Ev("c-s", NoPath, FALSE, FALSE)
    /\ UNCHANGED <<disk, allowed_suffixes, mgrVars, stepVars, codec>>

\* The user edits the file name field, or picks a file of the list.
Type(text) ==
    /\ is_open
    /\ filename_input # text
    /\ filename_input' = text
    /\ ev' = Ev("type", NoPath, FALSE, FALSE)
    /\ UNCHANGED <<floats, _float, _old_kb, key_bindings, status_label, disk,
                   allowed_suffixes, kb_at_open, mgrVars, stepVars, codec>>

\* close(), as the handler of the Cancel button or called from outside.
Close ==
    /\ LET c == close(floats, _float, _old_kb, key_bindings)
       IN  /\ floats' = c.floats
           /\ _float' = c.float
           /\ _old_kb' = c.old_kb
           /\ key_bindings' = c.key_bindings
    /\ ev' = Ev("close", NoPath, FALSE, FALSE)
    /\ UNCHANGED <<filename_input, status_label, disk, allowed_suffixes,
                   kb_at_open, mgrVars, stepVars, codec>>

\* The escape binding of the dialog, there while its bindings are merged
\* into those of the application.
Escape ==
    /\ \E i \in 1..Len(key_bindings) : key_bindings[i] = "_kb"
    /\ LET c == close(floats, _float, _old_kb, key_bindings)
       IN  /\ floats' = c.floats
           /\ _float' = c.float
           /\ _old_kb' = c.old_kb
           /\ key_bindings' = c.key_bindings
    /\ ev' = Ev("escape", NoPath, FALSE, FALSE)
    /\ UNCHANGED <<filename_input, status_label, disk, allowed_suffixes,
                   kb_at_open, mgrVars, stepVars, codec>>

\* _do_save(path), followed by the removal of the confirmation it was
\* called from (confirm_float, its position in floats before the call, 0
\* when there is none).  on_accept is do_save
\* of the application: it writes the file, or raises with the file written
\* or not.
_do_save(path, confirm_float, op) ==
    \E raised \in BOOLEAN :
        /\ IF raised
           THEN /\ disk' \in {disk, disk \cup {path}}
                /\ status_label' = "Save failed"
                /\ floats' = RemoveAt(floats, confirm_float)
                /\ UNCHANGED <<_float, _old_kb, key_bindings>>
           ELSE LET c == close(floats, _float, _old_kb, key_bindings)
                IN  /\ disk' = disk \cup {path}
                    /\ floats' = Remove(RemoveAt(floats, confirm_float), _float)
                    /\ _float' = c.float
                    /\ _old_kb' = c.old_kb
                    /\ key_bindings' = c.key_bindings
                    /\ UNCHANGED status_label
        /\ ev' = Ev(op, path, TRUE, raised)

\* The Save button: _save_clicked, with _confirm_overwrite or _do_save.
SaveClicked ==
    /\ is_open
    /\ LET r == _save_clicked(filename_input, allowed_suffixes, disk)
       IN  CASE r.do = "status" ->
                  /\ status_label' = r.status
                  /\ ev' = Ev("save", NoPath, FALSE, FALSE)
                  /\ UNCHANGED <<floats, _float, _old_kb, key_bindings, disk>>
             [] r.do = "confirm" ->
                  /\ Len(floats) < MaxFloats
                  /\ floats' = Append(floats, [content |-> "confirm", path |-> r.path,
                                               id |-> 0])
                  /\ ev' = Ev("save", NoPath, FALSE, FALSE)
                  /\ UNCHANGED <<_float, _old_kb, key_bindings, status_label, disk>>
             [] r.do = "save" -> _do_save(r.path, 0, "save")
    /\ UNCHANGED <<filename_input, allowed_suffixes, kb_at_open, mgrVars, stepVars, codec>>

\* The Yes button of the confirmation at position i of floats.
Yes(i) ==
    /\ i \in 1..Len(floats)
    /\ floats[i].content = "confirm"
    /\ _do_save(floats[i].path, i, "yes")
    /\ UNCHANGED <<filename_input, allowed_suffixes, kb_at_open, mgrVars, stepVars, codec>>

\* The No button of the confirmation at position i of floats.
No(i) ==
    /\ i \in 1..Len(floats)
    /\ floats[i].content = "confirm"
    /\ floats' = RemoveAt(floats, i)
    /\ ev' = Ev("no", NoPath, FALSE, FALSE)
    /\ UNCHANGED <<_float, _old_kb, key_bindings, filename_input, status_label,
                   disk, allowed_suffixes, kb_at_open, mgrVars, stepVars, codec>>

NextDialog ==
    \/ Open
    \/ \E name \in DefaultNames : CtrlS(name)
    \/ \E text \in Texts : Type(text)
    \/ Close
    \/ Escape
    \/ SaveClicked
    \/ \E i \in 1..MaxFloats : Yes(i)
    \/ \E i \in 1..MaxFloats : No(i)

SpecDialog == InitDialog /\ [][NextDialog]_vars

\* The suffix of p passes the check of the dialog.
SuffixAllowed(p) ==
    allowed_suffixes = NoneSuffixes \/ lower(p.suffix) \in allowed_suffixes

\* The dialog went from open to closed in this step.
Closes == is_open /\ _float' = 0

\* C35  The dialog calls on_accept(path) only for a path that is no
\* existing folder and whose suffix, in lower case, is in allowed_suffixes
\* when that is configured; for a path that exists as a file it calls
\* on_accept only from the Yes of the overwrite confirmation, and a No
\* never calls it; the dialog closes only in a step in which on_accept
\* returned without raising, or on cancel or escape.
C35_AcceptProtocol ==
    [][/\ ev'.called => ~(exists(disk, ev'.path) /\ is_dir(ev'.path))
       /\ ev'.called => SuffixAllowed(ev'.path)
       /\ (ev'.called /\ ev'.path \in disk) => ev'.op = "yes"
       /\ ev'.op = "no" => ~ev'.called
       /\ Closes => \/ ev'.op \in {"close", "escape"}
                    \/ ev'.called /\ ~ev'.raised]_vars

\* C35 as stated: the suffix of the path itself, as written, is in
\* allowed_suffixes.
C35_AcceptProtocolLiteral ==
    [][/\ ev'.called => ~(exists(disk, ev'.path) /\ is_dir(ev'.path))
       /\ ev'.called =>
              (allowed_suffixes = NoneSuffixes \/ ev'.path.suffix \in allowed_suffixes)
       /\ (ev'.called /\ ev'.path \in disk) => ev'.op = "yes"
       /\ ev'.op = "no" => ~ev'.called
       /\ Closes => \/ ev'.op \in {"close", "escape"}
                    \/ ev'.called /\ ~ev'.raised]_vars

\* C35 witness: with suffixes configured, "new.MD" has been saved under
\* that name; then the Yes of a confirmation called on_accept for a file
\* that was there, on_accept returned and the dialog, open until then, is
\* closed and no float is left.
C35_Witness ==
    /\ ev.op = "yes" /\ ev.called /\ ~ev.raised /\ ev.was_open
    /\ allowed_suffixes = {".md", ".txt"}
    /\ ev.path = Path("old", ".md")
    /\ Path("new", ".MD") \in disk
    /\ ~is_open
    /\ floats = <<>>

DialogFloats == {i \in 1..Len(floats) : floats[i].content = "dialog"}

====
